---- MODULE Spec2Model ----
(***************************************************************************)
(* Model of the hand-coded parameter-shift gradient and of the evaluation  *)
(* cost function of src/3-quantum-gradients.ipynb.                         *)
(*                                                                         *)
(* Numbers.  Angles are counted in units of pi/2, so `+= np.pi/2` adds 1   *)
(* and `-= np.pi` subtracts 2.  Tensors have a floating dtype (as w has in *)
(* the notebook): an angle is a floating-point number with a significand   *)
(* of Precision bits, and every addition to an angle is rounded to the     *)
(* nearest such number, ties to even (Fl).  Oracle values are integers;    *)
(* every oracle of the family below satisfies f(t+1) - f(t-1) even, so the *)
(* subtraction and the factor 0.5 of the shift rule are exact on them.     *)
(*                                                                         *)
(* Memory.  Python passes arrays by reference, so arrays live in `heap`    *)
(* and the program variables hold object names.                            *)
(***************************************************************************)
EXTENDS Integers, Sequences, FiniteSets, TLC

\* ---------------------------------------------------------------- bounds
MaxL == 3          \* largest number of rows of an input tensor
MaxW == 2          \* largest number of columns of an input tensor
MaxBase == 1       \* input tensors start at a value in 0..MaxBase
MaxData == 2       \* longest data vector
NumFailures == 2   \* distinct failures the oracle can raise
NumWorkers == 2    \* workers that run parameter_shift_term side by side
MaxParCells == 4   \* most entries of a tensor given to workers
MaxArg == 13       \* num_evals arguments range over MinArg..MaxArg
MaxNeg == 2
MinArg == 0 - MaxNeg
Precision == 2     \* bits of the significand of a floating-point angle

\* ---------------------------------------------------------------- values
None == "None"    \* a variable that holds no object name
\* names of the arrays: w, another tensor of the caller, the data, the
\* working copy, the gradient array, and the working copies of the workers
WorkerNames == <<"S1", "S2", "S3">>
Objects == {"W", "P", "X", "S", "G"} \cup {WorkerNames[k] : k \in 1..NumWorkers}
NoArray == [ndim |-> 0, nrows |-> 0, ncols |-> 0, rows |-> << >>]
NoExc == [type |-> "none", id |-> 0]
Exc(t) == [type |-> t, id |-> 0]
OracleFailure(k) == [type |-> "OracleFailure", id |-> k]

\* ------------------------------------------------- floating-point angles
Abs(n) == IF n < 0 THEN 0 - n ELSE n

\* spacing of the floating-point numbers around the magnitude a >= 0
RECURSIVE Ulp(_)
Ulp(a) == IF a < 2 ^ Precision THEN 1 ELSE 2 * Ulp(a \div 2)

\* the floating-point number nearest to the magnitude a, ties to even
RoundMag(a) ==
  LET u == Ulp(a)
      q == a \div u
      r == a % u
  IN  IF 2 * r < u THEN q * u
      ELSE IF 2 * r > u THEN (q + 1) * u
      ELSE IF q % 2 = 0 THEN q * u ELSE (q + 1) * u

\* the result of a floating-point operation whose exact value is n
Fl(n) == IF n < 0 THEN 0 - RoundMag(0 - n) ELSE RoundMag(n)

\* A 2-D array: nrows x ncols, rows[r][c] with 1-based r, c.
Rect(L, W, base) ==
  [ndim |-> 2, nrows |-> L, ncols |-> W,
   rows |-> [r \in 1..L |->
               [c \in 1..W |-> Fl(base + (r - 1) * W + (c - 1))]]]

\* What numpy makes of rows of unequal length: a 1-D object array whose
\* elements are the rows.
Ragged(rs) == [ndim |-> 1, nrows |-> Len(rs), ncols |-> 0, rows |-> rs]

RectTensors ==
  {Rect(L, W, b) : L \in 0..MaxL, W \in 0..MaxW, b \in 0..MaxBase}

RaggedTensors ==
  {Ragged(<< <<b, b + 1>>, <<b + 2>> >>) : b \in 0..MaxBase} \cup
  {Ragged(<< <<b>>, <<b + 1, b + 2>> >>) : b \in 0..MaxBase}

\* A 1-D array of numbers.
Vector(v) == [ndim |-> 1, nrows |-> Len(v), ncols |-> 0, rows |-> v]

DataVectors == {Vector([k \in 1..n |-> k]) : n \in 0..MaxData}

Oracles == {"cosine", "linear"}

IsRectangular(t) == t.ndim = 2

Shape(t) == IF t.ndim = 2 THEN <<t.nrows, t.ncols>> ELSE <<t.nrows>>

\* Variant: the zero array is allocated with the two axes exchanged.
zeros_like_transposed(t) ==
  IF t.ndim = 2
    THEN [ndim |-> 2, nrows |-> t.ncols, ncols |-> t.nrows,
          rows |-> [r \in 1..t.ncols |-> [c \in 1..t.nrows |-> 0]]]
    ELSE [ndim |-> 1, nrows |-> t.nrows, ncols |-> 0,
          rows |-> [r \in 1..t.nrows |-> 0]]
\* np.zeros_like(params): same shape and dtype, every element 0.
zeros_like(t) ==
  IF t.ndim = 2
    THEN [ndim |-> 2, nrows |-> t.nrows, ncols |-> t.ncols,
          rows |-> [r \in 1..t.nrows |-> [c \in 1..t.ncols |-> 0]]]
    ELSE [ndim |-> 1, nrows |-> t.nrows, ncols |-> 0,
          rows |-> [r \in 1..t.nrows |-> 0]]

\* a[i, j] with 0-based i, j is defined for a 2-D array inside its bounds.
InBounds(t, i0, j0) ==
  /\ t.ndim = 2
  /\ i0 >= 0 /\ i0 < t.nrows
  /\ j0 >= 0 /\ j0 < t.ncols

\* a[i, j] += d, in floating point
AddAt(t, i0, j0, d) ==
  [t EXCEPT !.rows[i0 + 1][j0 + 1] = Fl(@ + d)]

\* Variant: `a[i, 0] = v`.
SetAtFirstCol(t, i0, j0, v) ==
  [t EXCEPT !.rows[i0 + 1][1] = v]
\* a[i, j] = v
SetAt(t, i0, j0, v) ==
  [t EXCEPT !.rows[i0 + 1][j0 + 1] = v]

\* ---------------------------------------------------------------- oracle
\* cos of an angle given in units of pi/2
CosQ(n) == CASE n % 4 = 0 -> 1
             [] n % 4 = 1 -> 0
             [] n % 4 = 2 -> 0 - 1
             [] OTHER     -> 0

RECURSIVE SumSeq(_)
SumSeq(s) == IF s = <<>> THEN 0 ELSE Head(s) + SumSeq(Tail(s))

\* weight of the entry (r, c): its 1-based row-major position
Weight(t, r, c) == (r - 1) * t.ncols + c

RECURSIVE SumRow(_, _, _, _, _)
SumRow(q, data, t, r, c) ==
  IF c > t.ncols THEN 0
  ELSE (IF q = "cosine"
          THEN Weight(t, r, c) * CosQ(t.rows[r][c] + SumSeq(data.rows))
          ELSE Weight(t, r, c) * t.rows[r][c] * SumSeq(data.rows))
       + SumRow(q, data, t, r, c + 1)

RECURSIVE SumRows(_, _, _, _)
SumRows(q, data, t, r) ==
  IF r > t.nrows THEN 0
  ELSE SumRow(q, data, t, r, 1) + SumRows(q, data, t, r + 1)

\* The value qnode(x, params) of a call that returns.
Oracle(q, data, t) == SumRows(q, data, t, 1)

\* ---------------------------------------------------------------- state
VARIABLES
  heap,        \* object name -> array (or NoArray): "W" is the notebook's w,
               \* "P" a tensor of the caller other than w, "X" the data,
               \* "S" the working copy, "G" the gradient array
  orig,        \* heap when parameter_shift was called
  params,      \* argument params of parameter_shift: "W" or "P"
  x,           \* argument x: "X"
  qnode,       \* argument qnode: the oracle
  faulty,      \* whether this oracle can fail
  pc,          \* position in parameter_shift / parameter_shift_term
  gradients,   \* local of parameter_shift: object name or None
  i, j,        \* loop indices (0-based, as in the source)
  ncolsRange,  \* the evaluated len(gradients[0]) of the running inner loop
  shifted,     \* local of parameter_shift_term: object name or None
  forward, backward,   \* locals of parameter_shift_term
  calls,       \* number of oracle calls made
  lastCall,    \* arguments of the latest oracle call
  log,         \* oracle calls and gradient writes made so far, in order
  oracleExc,   \* what the oracle raised, if it failed
  exc,         \* exception that left parameter_shift
  result,      \* value returned by parameter_shift: object name or None
  n_params, n_steps,   \* arguments of num_evals
  evals_pc,    \* "call" before num_evals runs, then "returned" or "raised"
  evals_ret,   \* value returned by num_evals
  evals_exc,   \* exception raised by num_evals
  workers,     \* worker -> its position and locals in parameter_shift_term
  todo,        \* entries (i, j) no worker has taken yet
  callNo,      \* which call of parameter_shift of the session is running
  firstResult  \* the array the first call of the session returned

gradVars == <<heap, orig, params, x, qnode, faulty, pc,
              gradients, i, j, ncolsRange, shifted, forward, backward, calls,
              lastCall, log, oracleExc, exc, result>>
evalVars == <<n_params, n_steps, evals_pc, evals_ret, evals_exc>>
parVars == <<workers, todo>>
sessVars == <<callNo, firstResult>>
otherVars == <<evalVars, parVars, sessVars>>
vars == <<gradVars, evalVars, parVars, sessVars>>

NoCall == [data |-> NoArray, params |-> NoArray, i |-> 0 - 1, j |-> 0 - 1,
           dir |-> "none"]

IdleWorker == [pc |-> "idle", i |-> 0, j |-> 0, shifted |-> None,
               forward |-> 0, backward |-> 0]

\* entries of log
CallEvent(i0, j0, dir, arg, ok, v) ==
  [kind |-> "call", i |-> i0, j |-> j0, dir |-> dir, arg |-> arg,
   ok |-> ok, val |-> v]
WriteEvent(i0, j0, v) ==
  [kind |-> "write", i |-> i0, j |-> j0, dir |-> "none", arg |-> NoArray,
   ok |-> TRUE, val |-> v]

\* ------------------------------------------------- pieces of the program
\* Variant: `forward - backward`, without the factor 0.5.
ShiftTermNoHalf(f, b) == f - b
\* `0.5 * (forward - backward)`
ShiftTerm(f, b) == (f - b) \div 2

\* Variant: the inner range is taken from len(gradients).
NumColsOfRows(g) == g.nrows
\* `len(gradients[0])`: the length of the first row of a 2-D array.
NumCols(g) == g.ncols

\* Variant: `parameter_shift_term(qnode, params, x, i, j)`.
TermBaseParams == params
\* The tensor parameter_shift hands to parameter_shift_term: the notebook
\* variable w, whatever the argument params is.
TermBase == "W"

\* Variant: `shifted = params`, no copy.
AliasRef(src) == src
\* `params.copy()` yields a new object, here named "S".
CopyRef(src) == "S"

\* Variant: `qnode(x[1:], shifted)`.
OracleArgsSliced(d, s) ==
  [data |-> Vector(SubSeq(heap[d].rows, 2, Len(heap[d].rows))),
   params |-> heap[s]]
\* The arguments of `qnode(x, shifted)`.
OracleArgs(d, s) == [data |-> heap[d], params |-> heap[s]]

\* Variant: a failure of the oracle is caught and the entry is computed
\* again.
RaiseRetried(e) ==
  /\ pc' = IF e.type = "OracleFailure" THEN "loop_j" ELSE "raised"
  /\ exc' = IF e.type = "OracleFailure" THEN NoExc ELSE e
  /\ result' = None
\* Variant: the exception is caught and the gradient array filled so far
\* is returned.
RaiseSwallowed(e) ==
  /\ pc' = "done"
  /\ exc' = NoExc
  /\ result' = gradients
\* An exception that nothing catches leaves parameter_shift as it is; no
\* value is returned.
Raise(e) ==
  /\ pc' = "raised"
  /\ exc' = e
  /\ result' = None

\* Variant: `return 2*n_params`.
num_evals_per_step(n, s) == 2 * n
\* Variant: `return n_params*n_steps`.
num_evals_single(n, s) == n * s
\* Variant: `return 2*n_params + n_steps`.
num_evals_sum(n, s) == 2 * n + s
\* `return 2*n_params*n_steps`
num_evals(n, s) == 2 * n * s

\* ------------------------------------------------------------ initial state
InitHeaps ==
  {[o \in Objects |->
      CASE o = "W" -> w
        [] o = "P" -> p
        [] o = "X" -> d
        [] OTHER   -> NoArray] :
   w \in RectTensors, p \in RectTensors \cup RaggedTensors \cup {NoArray},
   d \in DataVectors}

WorkersIdle ==
  /\ workers = [k \in 1..NumWorkers |-> IdleWorker]
  /\ todo = {}

SessionIdle ==
  /\ callNo = 1
  /\ firstResult = NoArray

EvalsIdle ==
  /\ n_params = 0
  /\ n_steps = 0
  /\ evals_pc = "idle"
  /\ evals_ret = 0
  /\ evals_exc = NoExc

\* parameter_shift(qnode, params, x) is about to run.  The caller passes
\* either w itself (as the notebook does) or another tensor.
Init ==
  /\ heap \in InitHeaps
  /\ orig = heap
  /\ params = IF heap["P"] = NoArray THEN "W" ELSE "P"
  /\ x = "X"
  /\ qnode \in Oracles
  /\ faulty \in BOOLEAN
  /\ pc = "call"
  /\ gradients = None
  /\ i = 0
  /\ j = 0
  /\ ncolsRange = 0
  /\ shifted = None
  /\ forward = 0
  /\ backward = 0
  /\ calls = 0
  /\ lastCall = NoCall
  /\ log = << >>
  /\ oracleExc = NoExc
  /\ exc = NoExc
  /\ result = None
  /\ EvalsIdle
  /\ WorkersIdle
  /\ SessionIdle

\* ------------------------------------------------------- parameter_shift
\* Variant: reads len(gradients[0]) before the row loop.
BeginReadsFirstRow ==
  /\ pc = "call"
  /\ \/ /\ heap[params].nrows > 0
        /\ heap' = [heap EXCEPT !["G"] = zeros_like(heap[params])]
        /\ gradients' = "G"
        /\ i' = 0
        /\ pc' = "loop_i"
        /\ UNCHANGED <<exc, result>>
     \/ /\ heap[params].nrows = 0
        /\ Raise(Exc("IndexError"))
        /\ UNCHANGED <<heap, gradients, i>>
     \/ /\ ~IsRectangular(heap[params])
        /\ Raise(Exc("ValueError"))
        /\ UNCHANGED <<heap, gradients, i>>
  /\ UNCHANGED <<orig, params, x, qnode, faulty, j, ncolsRange, shifted,
                 forward, backward, calls, lastCall, log, oracleExc, otherVars>>
\* gradients = np.zeros_like((params))
Begin ==
  /\ pc = "call"
  /\ \/ /\ heap' = [heap EXCEPT !["G"] = zeros_like(heap[params])]
        /\ gradients' = "G"
        /\ i' = 0
        /\ pc' = "loop_i"
        /\ UNCHANGED <<exc, result>>
     \/ \* numpy builds that refuse to make an array of ragged rows
        /\ ~IsRectangular(heap[params])
        /\ Raise(Exc("ValueError"))
        /\ UNCHANGED <<heap, gradients, i>>
  /\ UNCHANGED <<orig, params, x, qnode, faulty, j, ncolsRange, shifted,
                 forward, backward, calls, lastCall, log, oracleExc, otherVars>>

\* for i in range(len(gradients)):  and, for the row entered,
\*     for j in range(len(gradients[0])):   (the range is evaluated here)
RowLoop ==
  /\ pc = "loop_i"
  /\ IF i < heap[gradients].nrows
       THEN IF heap[gradients].ndim = 2
              THEN /\ ncolsRange' = NumCols(heap[gradients])
                   /\ j' = 0
                   /\ pc' = "loop_j"
                   /\ UNCHANGED <<exc, result>>
              ELSE \* gradients[0] is a scalar: len() of it is a TypeError
                   /\ Raise(Exc("TypeError"))
                   /\ UNCHANGED <<ncolsRange, j>>
       ELSE /\ pc' = "return"
            /\ UNCHANGED <<ncolsRange, j, exc, result>>
  /\ UNCHANGED <<heap, orig, params, x, qnode, faulty, gradients, i, shifted,
                 forward, backward, calls, lastCall, log, oracleExc, otherVars>>

\* next j of the inner loop, or the end of row i
ColLoop ==
  /\ pc = "loop_j"
  /\ IF j < ncolsRange
       THEN /\ pc' = "term_copy"
            /\ i' = i
       ELSE /\ pc' = "loop_i"
            /\ i' = i + 1
  /\ UNCHANGED <<heap, orig, params, x, qnode, faulty, gradients, j,
                 ncolsRange, shifted, forward, backward, calls, lastCall, log,
                 oracleExc, exc, result, otherVars>>

\* return gradients
Return ==
  /\ pc = "return"
  /\ result' = gradients
  /\ pc' = "done"
  /\ UNCHANGED <<heap, orig, params, x, qnode, faulty, gradients, i, j,
                 ncolsRange, shifted, forward, backward, calls, lastCall, log,
                 oracleExc, exc, otherVars>>

\* -------------------------------------------------- parameter_shift_term
\* parameter_shift_term(qnode, w, x, i, j):  shifted = params.copy()
TermCopy ==
  /\ pc = "term_copy"
  /\ heap' = [heap EXCEPT !["S"] = heap[TermBase]]
  /\ shifted' = CopyRef(TermBase)
  /\ pc' = "shift_up"
  /\ UNCHANGED <<orig, params, x, qnode, faulty, gradients, i, j, ncolsRange,
                 forward, backward, calls, lastCall, log, oracleExc, exc, result,
                 otherVars>>

\* Variant: an index outside the array is skipped, not an error.
ShiftUpSkipsMissing ==
  /\ pc = "shift_up"
  /\ IF InBounds(heap[shifted], i, j)
       THEN heap' = [heap EXCEPT ![shifted] = AddAt(@, i, j, 1)]
       ELSE UNCHANGED heap
  /\ pc' = "forward"
  /\ UNCHANGED <<orig, params, x, qnode, faulty, gradients, i, j, ncolsRange,
                 shifted, forward, backward, calls, lastCall, log, oracleExc,
                 exc, result, otherVars>>
\* shifted[i, j] += np.pi/2
ShiftUp ==
  /\ pc = "shift_up"
  /\ IF InBounds(heap[shifted], i, j)
       THEN /\ heap' = [heap EXCEPT ![shifted] = AddAt(@, i, j, 1)]
            /\ pc' = "forward"
            /\ UNCHANGED <<exc, result>>
       ELSE /\ Raise(Exc("IndexError"))
            /\ UNCHANGED heap
  /\ UNCHANGED <<orig, params, x, qnode, faulty, gradients, i, j, ncolsRange,
                 shifted, forward, backward, calls, lastCall, log, oracleExc,
                 otherVars>>

\* One call qnode(x, shifted): it returns a value or, if the oracle can
\* fail, raises one of its failures.
OracleCall(dir, next) ==
  LET args == OracleArgs(x, shifted) IN
  /\ calls' = calls + 1
  /\ lastCall' = [data |-> args.data, params |-> args.params,
                  i |-> i, j |-> j, dir |-> dir]
  /\ \/ /\ pc' = next
        /\ IF dir = "forward"
             THEN /\ forward' = Oracle(qnode, args.data, args.params)
                  /\ UNCHANGED backward
             ELSE /\ backward' = Oracle(qnode, args.data, args.params)
                  /\ UNCHANGED forward
        /\ log' = Append(log, CallEvent(i, j, dir, args.params, TRUE,
                                        Oracle(qnode, args.data, args.params)))
        /\ UNCHANGED <<oracleExc, exc, result>>
     \/ /\ faulty
        /\ \E k \in 1..NumFailures :
             /\ oracleExc' = OracleFailure(k)
             /\ Raise(OracleFailure(k))
        /\ log' = Append(log, CallEvent(i, j, dir, args.params, FALSE, 0))
        /\ UNCHANGED <<forward, backward>>
  /\ UNCHANGED <<heap, orig, params, x, qnode, faulty, gradients, i, j,
                 ncolsRange, shifted, otherVars>>

\* forward = qnode(x, shifted)
Forward ==
  /\ pc = "forward"
  /\ OracleCall("forward", "shift_down")

\* Variant: `shifted[i, j] -= np.pi/2`.
ShiftDownHalf ==
  /\ pc = "shift_down"
  /\ heap' = [heap EXCEPT ![shifted] = AddAt(@, i, j, 0 - 1)]
  /\ pc' = "backward"
  /\ UNCHANGED <<orig, params, x, qnode, faulty, gradients, i, j, ncolsRange,
                 shifted, forward, backward, calls, lastCall, log, oracleExc, exc,
                 result, otherVars>>
\* shifted[i, j] -= np.pi
ShiftDown ==
  /\ pc = "shift_down"
  /\ heap' = [heap EXCEPT ![shifted] = AddAt(@, i, j, 0 - 2)]
  /\ pc' = "backward"
  /\ UNCHANGED <<orig, params, x, qnode, faulty, gradients, i, j, ncolsRange,
                 shifted, forward, backward, calls, lastCall, log, oracleExc, exc,
                 result, otherVars>>

\* Variant: the backward evaluation is left out.
BackwardSkipped ==
  /\ pc = "backward"
  /\ pc' = "store"
  /\ UNCHANGED <<heap, orig, params, x, qnode, faulty, gradients, i, j,
                 ncolsRange, shifted, forward, backward, calls, lastCall, log,
                 oracleExc, exc, result, otherVars>>
\* backward = qnode(x, shifted)
Backward ==
  /\ pc = "backward"
  /\ OracleCall("backward", "store")

\* return 0.5 * (forward - backward), assigned to gradients[i, j]; the
\* locals of parameter_shift_term go out of scope.
Store ==
  /\ pc = "store"
  /\ heap' = [heap EXCEPT
                ![gradients] = SetAt(@, i, j, ShiftTerm(forward, backward))]
  /\ shifted' = None
  /\ forward' = 0
  /\ backward' = 0
  /\ log' = Append(log, WriteEvent(i, j, ShiftTerm(forward, backward)))
  /\ j' = j + 1
  /\ pc' = "loop_j"
  /\ UNCHANGED <<orig, params, x, qnode, faulty, gradients, i, ncolsRange,
                 calls, lastCall, oracleExc, exc, result, otherVars>>

Next ==
  \/ Begin
  \/ RowLoop
  \/ ColLoop
  \/ TermCopy
  \/ ShiftUp
  \/ Forward
  \/ ShiftDown
  \/ Backward
  \/ Store
  \/ Return

Spec == Init /\ [][Next]_vars

\* The interpreter runs the call to its end: a statement that can be
\* executed is executed.
SpecFair == Spec /\ WF_vars(Next)

\* -------------------------------------------------------------- num_evals
GradIdle ==
  /\ heap = [o \in Objects |-> NoArray]
  /\ orig = heap
  /\ params = "W"
  /\ x = "X"
  /\ qnode = "cosine"
  /\ faulty = FALSE
  /\ pc = "idle"
  /\ gradients = None
  /\ i = 0
  /\ j = 0
  /\ ncolsRange = 0
  /\ shifted = None
  /\ forward = 0
  /\ backward = 0
  /\ calls = 0
  /\ lastCall = NoCall
  /\ log = << >>
  /\ oracleExc = NoExc
  /\ exc = NoExc
  /\ result = None

\* Evaluations of one gradient with diff_method='backprop', as the notebook
\* measures them.
EvalsPerBackpropGradient == 1

\* The baseline the notebook plots next to num_evals(n, n): one gradient
\* per step, each costing one evaluation.
backprop_evals(s) == EvalsPerBackpropGradient * s

\* num_evals(n_params, n_steps) is about to run.
InitEvals ==
  /\ GradIdle
  /\ WorkersIdle
  /\ SessionIdle
  /\ n_params \in MinArg..MaxArg
  /\ n_steps \in MinArg..MaxArg
  /\ evals_pc = "call"
  /\ evals_ret = 0
  /\ evals_exc = NoExc

\* def num_evals(n_params, n_steps): return 2*n_params*n_steps
NumEvals ==
  /\ evals_pc = "call"
  /\ evals_ret' = num_evals(n_params, n_steps)
  /\ evals_pc' = "returned"
  /\ UNCHANGED <<n_params, n_steps, evals_exc, gradVars, parVars, sessVars>>

NextEvals == NumEvals

SpecEvals == InitEvals /\ [][NextEvals]_vars

\* ------------------------------------------------- two calls in a session
\* The notebook session calls parameter_shift with a tensor of its own that
\* is not the notebook variable w.
InitSession ==
  /\ Init
  /\ params = "P"
  /\ IsRectangular(heap["P"])
  /\ ~faulty

\* After the first call returned, the session assigns the notebook variable
\* w again (a tensor of the same shape) and calls
\* parameter_shift(qnode, params, x) a second time with the same oracle
\* and arguments whose values are those of the first call.
SecondCall ==
  /\ pc = "done"
  /\ callNo = 1
  /\ firstResult' = heap[result]
  /\ callNo' = 2
  /\ \E t \in RectTensors :
       /\ Shape(t) = Shape(heap["W"])
       /\ heap' = [heap EXCEPT !["W"] = t, !["G"] = NoArray, !["S"] = NoArray]
  /\ orig' = heap'
  /\ pc' = "call"
  /\ gradients' = None
  /\ i' = 0
  /\ j' = 0
  /\ ncolsRange' = 0
  /\ calls' = 0
  /\ lastCall' = NoCall
  /\ log' = << >>
  /\ result' = None
  /\ UNCHANGED <<params, x, qnode, faulty, shifted, forward, backward,
                 oracleExc, exc, evalVars, parVars>>

NextSession ==
  \/ Next
  \/ SecondCall

SpecSession == InitSession /\ [][NextSession]_vars

\* ------------------------------------------ parameter_shift_term, workers
\* The entries of the gradient are handed to NumWorkers workers, each of
\* which runs parameter_shift_term(qnode, w, x, i, j) for one entry at a
\* time; the steps of the workers interleave in any order.  The oracle is
\* deterministic and does not fail.

ParTensors ==
  {t \in RectTensors : t.nrows * t.ncols \in 1..MaxParCells}

\* The object params.copy() yields in worker k.
FreshIn(k, o) == IF o = "S" THEN WorkerNames[k] ELSE o

\* gradients = np.zeros_like((params)) has run, with params the notebook's
\* w; no entry has been taken.
InitWorkers ==
  /\ \E t \in ParTensors : \E d \in DataVectors :
        heap = [o \in Objects |->
                  CASE o = "W" -> t
                    [] o = "X" -> d
                    [] o = "G" -> zeros_like(t)
                    [] OTHER   -> NoArray]
  /\ orig = heap
  /\ params = "W"
  /\ x = "X"
  /\ qnode \in Oracles
  /\ faulty = FALSE
  /\ pc = "workers"
  /\ gradients = "G"
  /\ i = 0
  /\ j = 0
  /\ ncolsRange = 0
  /\ shifted = None
  /\ forward = 0
  /\ backward = 0
  /\ calls = 0
  /\ lastCall = NoCall
  /\ log = << >>
  /\ oracleExc = NoExc
  /\ exc = NoExc
  /\ result = None
  /\ workers = [k \in 1..NumWorkers |-> IdleWorker]
  /\ todo = {<<r - 1, c - 1>> : r \in 1..heap["W"].nrows,
                                c \in 1..heap["W"].ncols}
  /\ EvalsIdle
  /\ SessionIdle

WorkerFrame == <<orig, params, x, qnode, faulty, pc, gradients, i, j,
                 ncolsRange, shifted, forward, backward, lastCall, oracleExc,
                 exc, result, evalVars, sessVars>>

\* an idle worker takes any entry not yet taken
WTake(k) ==
  /\ pc = "workers"
  /\ workers[k].pc = "idle"
  /\ \E e \in todo :
        /\ todo' = todo \ {e}
        /\ workers' = [workers EXCEPT ![k] =
                         [@ EXCEPT !.pc = "term_copy", !.i = e[1], !.j = e[2]]]
  /\ UNCHANGED <<heap, calls, log, WorkerFrame>>

\* shifted = params.copy()
WCopy(k) ==
  /\ workers[k].pc = "term_copy"
  /\ heap' = [heap EXCEPT ![FreshIn(k, "S")] = heap[TermBase]]
  /\ workers' = [workers EXCEPT ![k] =
                   [@ EXCEPT !.pc = "shift_up",
                             !.shifted = FreshIn(k, CopyRef(TermBase))]]
  /\ UNCHANGED <<todo, calls, log, WorkerFrame>>

\* shifted[i, j] += np.pi/2
WShiftUp(k) ==
  /\ workers[k].pc = "shift_up"
  /\ heap' = [heap EXCEPT ![workers[k].shifted] =
                             AddAt(@, workers[k].i, workers[k].j, 1)]
  /\ workers' = [workers EXCEPT ![k] = [@ EXCEPT !.pc = "forward"]]
  /\ UNCHANGED <<todo, calls, log, WorkerFrame>>

\* forward = qnode(x, shifted)
WForward(k) ==
  LET args == OracleArgs(x, workers[k].shifted) IN
  /\ workers[k].pc = "forward"
  /\ calls' = calls + 1
  /\ workers' = [workers EXCEPT ![k] =
                   [@ EXCEPT !.pc = "shift_down",
                             !.forward = Oracle(qnode, args.data, args.params)]]
  /\ UNCHANGED <<heap, todo, log, WorkerFrame>>

\* shifted[i, j] -= np.pi
WShiftDown(k) ==
  /\ workers[k].pc = "shift_down"
  /\ heap' = [heap EXCEPT ![workers[k].shifted] =
                             AddAt(@, workers[k].i, workers[k].j, 0 - 2)]
  /\ workers' = [workers EXCEPT ![k] = [@ EXCEPT !.pc = "backward"]]
  /\ UNCHANGED <<todo, calls, log, WorkerFrame>>

\* backward = qnode(x, shifted)
WBackward(k) ==
  LET args == OracleArgs(x, workers[k].shifted) IN
  /\ workers[k].pc = "backward"
  /\ calls' = calls + 1
  /\ workers' = [workers EXCEPT ![k] =
                   [@ EXCEPT !.pc = "store",
                             !.backward = Oracle(qnode, args.data, args.params)]]
  /\ UNCHANGED <<heap, todo, log, WorkerFrame>>

\* gradients[i, j] = 0.5 * (forward - backward); the worker is free again
WStore(k) ==
  LET v == ShiftTerm(workers[k].forward, workers[k].backward) IN
  /\ workers[k].pc = "store"
  /\ heap' = [heap EXCEPT
                ![gradients] = SetAt(@, workers[k].i, workers[k].j, v)]
  /\ log' = Append(log, WriteEvent(workers[k].i, workers[k].j, v))
  /\ workers' = [workers EXCEPT ![k] = IdleWorker]
  /\ UNCHANGED <<todo, calls, WorkerFrame>>

\* every entry has its result: return gradients
WJoin ==
  /\ pc = "workers"
  /\ todo = {}
  /\ \A k \in 1..NumWorkers : workers[k].pc = "idle"
  /\ result' = gradients
  /\ pc' = "done"
  /\ UNCHANGED <<heap, orig, params, x, qnode, faulty, gradients, i, j,
                 ncolsRange, shifted, forward, backward, calls, lastCall, log,
                 oracleExc, exc, otherVars>>

NextWorkers ==
  \/ \E k \in 1..NumWorkers : WTake(k)
  \/ \E k \in 1..NumWorkers : WCopy(k)
  \/ \E k \in 1..NumWorkers : WShiftUp(k)
  \/ \E k \in 1..NumWorkers : WForward(k)
  \/ \E k \in 1..NumWorkers : WShiftDown(k)
  \/ \E k \in 1..NumWorkers : WBackward(k)
  \/ \E k \in 1..NumWorkers : WStore(k)
  \/ WJoin

SpecWorkers == InitWorkers /\ [][NextWorkers]_vars

\* ------------------------------------------------------------ properties
Finished == pc \in {"done", "raised"}

\* L and W of the params argument
L == orig[params].nrows
W == orig[params].ncols

\* The parameter-shift gradient of the oracle q at the tensor t for the data
\* d: entry (r, c) is 0.5 * (q(d, t + pi/2 at (r,c)) - q(d, t - pi/2 at (r,c))),
\* the lower point being reached as parameter_shift_term reaches it, pi
\* below the upper one.
ReferenceGradient(q, d, t) ==
  [ndim |-> 2, nrows |-> t.nrows, ncols |-> t.ncols,
   rows |-> [r \in 1..t.nrows |-> [c \in 1..t.ncols |->
      (Oracle(q, d, AddAt(t, r - 1, c - 1, 1))
         - Oracle(q, d, AddAt(AddAt(t, r - 1, c - 1, 1), r - 1, c - 1, 0 - 2)))
        \div 2]]]

\* C1: the tensor parameter_shift(oracle, params, data) returns agrees entry
\* by entry with the parameter-shift gradient taken at the params argument.
C1_GradientAtParams ==
  pc = "done" => heap[result] = ReferenceGradient(qnode, orig[x], orig[params])

\* C2: for a rectangular params of shape (L, W) and an oracle that never
\* fails, the call counter is never above 2*L*W and equals 2*L*W when the
\* gradient is returned.
C2_ExactlyTwoLWCalls ==
  (IsRectangular(orig[params]) /\ ~faulty) =>
     /\ calls <= 2 * L * W
     /\ pc = "done" => calls = 2 * L * W

C2_Witness ==
  /\ pc = "done" /\ ~faulty
  /\ Shape(orig[params]) = <<2, 2>>
  /\ calls = 8

\* C3: the returned gradient has the shape (L, W) of the params argument; a
\* (3, 2) params gives a (3, 2) gradient after exactly 12 oracle calls.
C3_GradientShape ==
  pc = "done" =>
     /\ Shape(heap[result]) = Shape(orig[params])
     /\ Shape(orig[params]) = <<3, 2>> => calls = 12

C3_Witness ==
  /\ pc = "done"
  /\ Shape(orig[params]) = <<3, 2>>
  /\ Shape(heap[result]) = <<3, 2>>

\* C4: at no point of the run does the caller's tensor (the params argument
\* of parameter_shift, and the tensor handed to parameter_shift_term) differ
\* from its value at the start of the call.
C4_OriginalUnchanged ==
  /\ heap[params] = orig[params]
  /\ heap[TermBase] = orig[TermBase]

C4_Witness ==
  /\ pc = "backward"
  /\ params = "W"
  /\ heap[shifted] # orig[params]
  /\ i = 1 /\ j = 1

\* C5: in every oracle call made while processing entry (i, j), the tensor
\* passed to the oracle equals the caller's params tensor in every entry
\* other than (i, j).
C5_OtherEntriesOriginal ==
  lastCall.dir # "none" =>
     \A r \in 1..L : \A c \in 1..W :
        (/\ r <= lastCall.params.nrows
         /\ c <= lastCall.params.ncols
         /\ <<r, c>> # <<lastCall.i + 1, lastCall.j + 1>>)
        => lastCall.params.rows[r][c] = orig[params].rows[r][c]

\* C6: the data vector is passed unchanged to every oracle call and is
\* never mutated.
C6_DataUnchanged ==
  /\ heap[x] = orig[x]
  /\ lastCall.dir # "none" => lastCall.data = orig[x]

C6_Witness ==
  /\ lastCall.dir = "backward"
  /\ lastCall.data = orig[x]
  /\ lastCall.data.nrows = 2
  /\ calls = 4

\* C7: for non-negative n_params and n_steps num_evals returns
\* 2 * n_params * n_steps (one forward and one backward evaluation per
\* parameter and step), which is 0 when either argument is 0.
C7_NumEvalsProduct ==
  (evals_pc # "call" /\ n_params >= 0 /\ n_steps >= 0) =>
     /\ evals_pc = "returned"
     /\ evals_ret = Cardinality((1..n_params) \X (1..n_steps)
                                   \X {"forward", "backward"})
     /\ (n_params = 0 \/ n_steps = 0) => evals_ret = 0

C7_Witness ==
  /\ evals_pc = "returned"
  /\ n_params = 3 /\ n_steps = 4
  /\ evals_ret = 24

\* C8: num_evals fails with a ValueError whenever n_params or n_steps is
\* negative; it never returns a negative count.
C8_NegativeRaises ==
  (evals_pc # "call" /\ (n_params < 0 \/ n_steps < 0)) =>
     /\ evals_pc = "raised"
     /\ evals_exc.type = "ValueError"

\* C9: parameter_shift fails with a ShapeError, returning no gradient,
\* whenever the params argument is not rectangular.
C9_RaggedShapeError ==
  (Finished /\ ~IsRectangular(orig[params])) =>
     /\ pc = "raised"
     /\ exc.type = "ShapeError"
     /\ result = None

\* C10: if an oracle call fails, that same failure reaches the caller, the
\* computation ends in an error and no gradient, complete or partial, is
\* returned.
C10_OracleFailureSurfaces ==
  oracleExc # NoExc =>
     /\ pc = "raised"
     /\ exc = oracleExc
     /\ result = None

C10_Witness ==
  /\ oracleExc = OracleFailure(2)
  /\ exc = oracleExc
  /\ calls = 4
  /\ heap["G"] # zeros_like(orig[params])

\* C11: after an oracle call has failed, no further oracle call is made in
\* that computation: no retry, no later entry, no backward evaluation.
C11_NoCallAfterFailure ==
  [][oracleExc # NoExc => (calls' = calls /\ log' = log /\ pc' = "raised")]_vars

C11_Witness ==
  /\ oracleExc # NoExc
  /\ lastCall.dir = "forward"
  /\ calls = 3
  /\ 2 * L * W > 3

\* positions in log of the events of one kind and direction for entry (r, c)
EventsOf(kind, dir, r, c) ==
  {k \in 1..Len(log) :
     /\ log[k].kind = kind /\ log[k].dir = dir
     /\ log[k].i = r - 1 /\ log[k].j = c - 1}

TheEvent(kind, dir, r, c) == CHOOSE k \in EventsOf(kind, dir, r, c) : TRUE

\* C12: when parameter_shift returns, each of the L*W entries of the
\* gradient has been written exactly once, after its own forward and
\* backward evaluation, with 0.5 * (forward - backward) of these two; no
\* entry of a returned gradient is an unwritten placeholder.
C12_EveryEntryWrittenOnce ==
  pc = "done" =>
     \A r \in 1..L : \A c \in 1..W :
        /\ Cardinality(EventsOf("write", "none", r, c)) = 1
        /\ Cardinality(EventsOf("call", "forward", r, c)) = 1
        /\ Cardinality(EventsOf("call", "backward", r, c)) = 1
        /\ LET wr == TheEvent("write", "none", r, c)
               fw == TheEvent("call", "forward", r, c)
               bw == TheEvent("call", "backward", r, c)
           IN  /\ fw < wr /\ bw < wr
               /\ log[wr].val = (log[fw].val - log[bw].val) \div 2
               /\ 2 * log[wr].val = log[fw].val - log[bw].val
               /\ heap[result].rows[r][c] = log[wr].val

C12_Witness ==
  /\ pc = "done"
  /\ Shape(heap[result]) = <<2, 2>>
  /\ heap[result].rows[1][2] # 0
  /\ heap[result].rows[1][1] = 0
  /\ Cardinality(EventsOf("write", "none", 1, 1)) = 1

\* The value parameter_shift_term(q, t, d, i, j) returns, computed as the
\* function computes it (r, c 1-based).
TermValue(q, d, t, r, c) ==
  LET up == AddAt(t, r - 1, c - 1, 1)
      down == AddAt(up, r - 1, c - 1, 0 - 2)
  IN  (Oracle(q, d, up) - Oracle(q, d, down)) \div 2

\* The array the sequential nested loop leaves in gradients (of the shape
\* of g0) when every term is taken at the tensor t.
SequentialGradient(q, d, g0, t) ==
  [g0 EXCEPT !.rows = [r \in 1..g0.nrows |-> [c \in 1..g0.ncols |->
                          TermValue(q, d, t, r, c)]]]

\* C13: the L*W parameter_shift_term computations, run in any order and any
\* interleaving across workers with a deterministic oracle, leave the same
\* gradient as the sequential nested loop, and no worker changes the tensor
\* or the data the others read.
C13_AnyOrderSameGradient ==
  /\ heap[TermBase] = orig[TermBase]
  /\ heap[x] = orig[x]
  /\ pc = "done" =>
        heap[result] = SequentialGradient(qnode, orig[x], zeros_like(orig[params]),
                                          orig[TermBase])

C13_Witness ==
  /\ pc = "done"
  /\ Shape(heap[result]) = <<2, 2>>
  /\ Len(log) = 4
  /\ <<log[1].i, log[1].j>> = <<1, 1>>
  /\ <<log[4].i, log[4].j>> = <<0, 0>>

\* C14: for n_params = n_steps = 13 num_evals returns 338, and the baseline
\* of one evaluation per step costs 13 for the same run.
C14_Run13 ==
  (evals_pc # "call" /\ n_params = 13 /\ n_steps = 13) =>
     /\ evals_pc = "returned"
     /\ evals_ret = 338
     /\ backprop_evals(n_steps) = 13

C14_Witness ==
  /\ evals_pc = "returned"
  /\ n_params = 13 /\ n_steps = 13
  /\ evals_ret = 338

\* sin of an angle given in units of pi/2
SinQ(n) == CASE n % 4 = 0 -> 0
             [] n % 4 = 1 -> 1
             [] n % 4 = 2 -> 0
             [] OTHER     -> 0 - 1

\* the run differentiates the one-parameter oracle f(theta) = cos(theta):
\* w has the single entry theta and the cosine oracle gets no data offset
OneParameterCosine ==
  /\ qnode = "cosine"
  /\ Shape(orig[TermBase]) = <<1, 1>>
  /\ orig[x].nrows = 0

\* C15: for the oracle f(theta) = cos(theta) the estimate of
\* parameter_shift_term is -sin(theta): 0 at theta = 0, -1 at theta = pi/2.
C15_CosineDerivative ==
  (OneParameterCosine /\ EventsOf("write", "none", 1, 1) # {}) =>
     LET theta == orig[TermBase].rows[1][1]
         est == log[TheEvent("write", "none", 1, 1)].val
     IN  /\ est = 0 - SinQ(theta)
         /\ theta = 0 => est = 0
         /\ theta = 1 => est = 0 - 1
         /\ heap[gradients].rows[1][1] = est

C15_Witness ==
  /\ OneParameterCosine
  /\ orig[TermBase].rows[1][1] = 1
  /\ EventsOf("write", "none", 1, 1) # {}
  /\ heap[gradients].rows[1][1] = 0 - 1

\* C16: parameter_shift keeps no hidden state: a second call with the same
\* oracle, the same params and the same data returns the tensor the first
\* call returned, whatever happened in the session between the two calls.
C16_ResultFunctionOfArguments ==
  (callNo = 2 /\ pc = "done"
     /\ heap[params] = orig[params] /\ heap[x] = orig[x]) =>
        heap[result] = firstResult

\* shifted after `shifted[i, j] += np.pi/2` and `shifted[i, j] -= np.pi`
TwoStep(t, i0, j0) == AddAt(AddAt(t, i0, j0, 1), i0, j0, 0 - 2)

\* the tensor parameter_shift_term copies, with entry (i0, j0) lowered by
\* pi/2 in one step
Direct(t, i0, j0) == AddAt(t, i0, j0, 0 - 1)

\* adding pi/2 to entry (i0, j0) of t is exact in floating point
ExactUp(t, i0, j0) ==
  t.rows[i0 + 1][j0 + 1] + 1 = Fl(t.rows[i0 + 1][j0 + 1] + 1)

\* C17 as stated: the forward call sees the original with entry (i, j)
\* raised by pi/2, and the backward call sees the original with entry
\* (i, j) lowered by pi/2.
C17_TwoStepEqualsDirect ==
  LET t == orig[TermBase] IN
  /\ lastCall.dir = "forward" =>
        lastCall.params = AddAt(t, lastCall.i, lastCall.j, 1)
  /\ lastCall.dir = "backward" =>
        lastCall.params = Direct(t, lastCall.i, lastCall.j)

\* C17 amended: the forward call sees fl(original + pi/2) at (i, j); the
\* backward call sees fl(fl(original + pi/2) - pi) there, which is
\* original - pi/2 whenever adding pi/2 to the entry is exact; the other
\* entries are those of the original in both calls.
C17_TwoStepShift ==
  LET t == orig[TermBase] IN
  /\ lastCall.dir = "forward" =>
        lastCall.params = AddAt(t, lastCall.i, lastCall.j, 1)
  /\ lastCall.dir = "backward" =>
        /\ lastCall.params = TwoStep(t, lastCall.i, lastCall.j)
        /\ ExactUp(t, lastCall.i, lastCall.j) =>
              /\ lastCall.params = Direct(t, lastCall.i, lastCall.j)
              /\ lastCall.params =
                   SetAt(t, lastCall.i, lastCall.j,
                         t.rows[lastCall.i + 1][lastCall.j + 1] - 1)

C17_Witness ==
  /\ lastCall.dir = "backward"
  /\ <<lastCall.i, lastCall.j>> = <<0, 1>>
  /\ ExactUp(orig[TermBase], 0, 1)
  /\ orig[TermBase].rows[1][2] = 2
  /\ lastCall.params.rows[1][2] = 1

C19_FixedCallOrder ==
  \A k \in 1..Len(log) :
    LET e == (k - 1) \div 3
        step == (k - 1) % 3
    IN  /\ W > 0
        /\ <<log[k].i, log[k].j>> = <<e \div W, e % W>>
        /\ step = 0 => (log[k].kind = "call" /\ log[k].dir = "forward")
        /\ step = 1 => (log[k].kind = "call" /\ log[k].dir = "backward")
        /\ step = 2 => /\ log[k].kind = "write"
                       /\ log[k - 2].ok
                       /\ log[k - 1].ok

C19_Witness ==
  /\ pc = "done"
  /\ Shape(heap[result]) = <<2, 2>>
  /\ Len(log) = 12
  /\ <<log[4].i, log[4].j, log[4].dir>> = <<0, 1, "forward">>
  /\ <<log[8].i, log[8].j, log[8].dir>> = <<1, 0, "backward">>
  /\ log[12].kind = "write"

\* C20: for a params with no rows or no columns parameter_shift makes no
\* oracle call, raises nothing, and what it returns is an empty tensor of
\* the shape of params.
C20_EmptyTensor ==
  (IsRectangular(orig[params]) /\ (L = 0 \/ W = 0)) =>
     /\ calls = 0
     /\ pc # "raised"
     /\ exc = NoExc
     /\ pc = "done" => /\ Shape(heap[result]) = <<L, W>>
                       /\ heap[result] = zeros_like(orig[params])

C20_Witness ==
  /\ pc = "done"
  /\ L = 0
  /\ W = 2
  /\ calls = 0
  /\ Shape(heap[result]) = <<0, 2>>

\* params has more rows or more columns than the notebook variable w
LargerThanW ==
  /\ IsRectangular(orig[params])
  /\ \/ L > orig["W"].nrows
     \/ W > orig["W"].ncols

\* the number of entries the row-major loop over (L, W) processes before it
\* comes to an entry that w does not have
EntriesBeforeMissing ==
  IF orig["W"].nrows = 0 THEN 0
  ELSE IF W > orig["W"].ncols THEN orig["W"].ncols
  ELSE orig["W"].nrows * W

\* C21 as stated: whenever params has more rows or more columns than w (and
\* the oracle never fails), the run ends with an index error, raised at an
\* entry that w does not have, and never returns a gradient.
C21_LargerParamsIndexError ==
  (LargerThanW /\ ~faulty) =>
     /\ pc # "done"
     /\ result = None
     /\ pc = "raised" => /\ exc = Exc("IndexError")
                         /\ ~InBounds(orig["W"], i, j)

\* C21 amended: when params has at least one entry and has more rows or
\* more columns than w (and the oracle never fails), the run ends with an
\* index error raised while shifting the first entry, in row-major order,
\* that w does not have, after two oracle calls for each entry before it,
\* and returns no gradient; a params without entries returns its empty
\* gradient whatever the shape of w.
C21_IndexErrorAtMissingEntry ==
  (LargerThanW /\ ~faulty) =>
     IF L >= 1 /\ W >= 1
       THEN /\ pc # "done"
            /\ result = None
            /\ calls <= 2 * EntriesBeforeMissing
            /\ \A k \in 1..Len(log) : InBounds(orig["W"], log[k].i, log[k].j)
            /\ pc = "raised" => /\ exc = Exc("IndexError")
                                /\ ~InBounds(orig["W"], i, j)
                                /\ calls = 2 * EntriesBeforeMissing
                                /\ Len(log) = 3 * EntriesBeforeMissing
       ELSE /\ pc # "raised"
            /\ calls = 0

C21_Witness ==
  /\ LargerThanW
  /\ ~faulty
  /\ pc = "raised"
  /\ exc = Exc("IndexError")
  /\ Shape(orig["W"]) = <<1, 2>>
  /\ Shape(orig[params]) = <<2, 2>>
  /\ <<i, j>> = <<1, 0>>
  /\ calls = 4

\* C22: for a rectangular params of any shape (L, W) and an oracle that
\* always returns, the run of parameter_shift eventually reaches the return
\* of the gradient.
C22_ReachesReturn ==
  (IsRectangular(orig[params]) /\ ~faulty) ~> (pc = "done")

\* what the parameter-shift run of n steps on n parameters costs above the
\* baseline, as the notebook plots the two curves
Gap(n) == num_evals(n, n) - backprop_evals(n)

\* C23: with n_steps = n_params = n >= 1, num_evals returns 2*n*n, which is
\* strictly above the baseline cost n, and the gap to the baseline grows
\* strictly with n.
C23_QuadraticAboveBaseline ==
  (evals_pc = "returned" /\ n_params = n_steps /\ n_params >= 1) =>
     /\ evals_ret = 2 * n_params * n_params
     /\ evals_ret > backprop_evals(n_steps)
     /\ evals_ret - backprop_evals(n_steps) = Gap(n_params)
     /\ \A m \in 0..(n_params - 1) : Gap(m) < Gap(n_params)
     /\ Gap(n_params - 1) < evals_ret - backprop_evals(n_steps)

C23_Witness ==
  /\ evals_pc = "returned"
  /\ n_params = 3 /\ n_steps = 3
  /\ evals_ret = 18
  /\ Gap(3) = 15 /\ Gap(2) = 6

====
